---- MODULE Spec2Model ----
(***************************************************************************)
(* Model of the PIX payment glue layer: the create, status and webhook     *)
(* route handlers, the TrexPay gateway client (src/lib/trexpay.ts), the    *)
(* in-process UTM correlation store and the UTMify attribution forwarder.  *)
(*                                                                         *)
(* JSON objects are functions from field names to values; a field that is  *)
(* absent is a name outside the function's DOMAIN.  JavaScript's undefined *)
(* and null are the strings Undefined and Null.  Monetary amounts are kept *)
(* in thousandths of a real, so that rounding to cents is observable.      *)
(***************************************************************************)
EXTENDS Integers, Sequences, FiniteSets, TLC

VARIABLES
  env,       \* process.env: TREXPAY_TOKEN and TREXPAY_SECRET
  utmStore,  \* the correlation store: key -> tracking snapshot
  webhook,   \* the webhook request being answered, if any
  statusQuery, \* the status request being answered, if any
  creates,   \* the create requests: each one's position in the handler and what it did
  deposits   \* the transaction ids of the deposits the gateway has created

vars == <<env, utmStore, webhook, statusQuery, creates, deposits>>

(***************************************************************************)
(* JavaScript values                                                       *)
(***************************************************************************)
Undefined == "undefined"
Null == "null"
EmptyObject == [x \in {} |-> x]

\* a property read on an object: undefined when the field is absent
Get(o, k) == IF k \in DOMAIN o THEN o[k] ELSE Undefined
Has(o, k) == k \in DOMAIN o
\* truthiness of a string-or-undefined value
Truthy(v) == v \notin {Undefined, Null, ""}
\* a || b on string values
Or(a, b) == IF Truthy(a) THEN a ELSE b
\* the objects with at most the field k, its value drawn from S
Opt(k, S) == {EmptyObject} \cup {(k :> v) : v \in S}

(***************************************************************************)
(* Signature verifier (src/lib/trexpay.ts)                                 *)
(***************************************************************************)
\* "sha256=" followed by the 64 hex digits of a SHA-256 digest
SignatureLength == 71

\* the string "sha256=" + HMAC-SHA256(secret, JSON.stringify(payload)) in hex:
\* injective in the key and the serialized payload, always SignatureLength long
Hmac(payload, secret) == [len |-> SignatureLength, key |-> secret, msg |-> payload]
\* any other string of a given length
RawSignature(text, n) == [len |-> n, raw |-> text]
NoSignature == RawSignature("", 0)
SigTruthy(s) == s.len > 0

\* mutant: only the lengths are compared
verifyWebhookSignature_lengthOnly(payload, signature, secret) ==
  signature.len = Hmac(payload, secret).len

verifyWebhookSignature(payload, signature, secret) ==
  LET expectedSignature == Hmac(payload, secret)
  IN  IF signature.len # expectedSignature.len
      THEN FALSE
      ELSE signature = expectedSignature

(***************************************************************************)
(* Amounts and dates                                                       *)
(***************************************************************************)
\* Math.round(value * 100), value in thousandths of a real: to the nearest
\* cent, halves up (an exact half depends on the binary representation of the
\* number; no amount used here ends in 5)
toCents(value) == (value + 5) \div 10

\* new Date() at the time of the call
Now == "now"
\* formatUtmfyDate(date) of lib/utmfy: the date rendered for the attribution service
formatUtmfyDate(date) == [utmfyDate |-> date]

(***************************************************************************)
(* Correlation store (lib/server-utm-store)                                *)
(***************************************************************************)
TrackingFields ==
  {"src", "sck", "utm_source", "utm_campaign", "utm_medium", "utm_content", "utm_term"}

\* the all-null tracking parameters
NullTracking == [f \in TrackingFields |-> Null]

\* getUtmParams(key): the stored snapshot, or undefined
getUtmParams(store, key) == IF key \in DOMAIN store THEN store[key] ELSE Undefined
hasUtmParams(store, key) == key \in DOMAIN store
\* saveUtmParams(key, params): the store after the write
saveUtmParams(store, key, params) == (key :> params) @@ store

(***************************************************************************)
(* Attribution forwarder (lib/utmfy)                                       *)
(***************************************************************************)
\* what one call of sendOrderToUtmfy can do: succeed, return a failure, raise
UtmfyOutcomes == {"ok", "failed", "raised"}

(***************************************************************************)
(* Webhook receiver (POST /api/webhook/trexpay)                            *)
(***************************************************************************)
Response(code, body) == [status |-> code, body |-> body]
WebhookOk == Response(200, [success |-> TRUE])
WebhookUnauthorized == Response(401, [error |-> "Assinatura invalida"])
WebhookInternalError == Response(500, [error |-> "Erro interno ao processar webhook"])

TypeError == [threw |-> "TypeError"]
Threw(v) == "threw" \in DOMAIN v

\* mutant: a received PIX counts as paid whatever its status
processPixInWebhook_receivedMeansPaid(payload) ==
  IF ~Has(payload, "data")
  THEN TypeError
  ELSE [transactionId |-> Get(payload.data, "idTransaction"),
        status |-> "paid",
        amount |-> payload.data.amount,
        paidAt |-> Get(payload.data, "paid_at"),
        payerName |-> IF Has(payload.data, "payer") THEN payload.data.payer.name ELSE Undefined,
        payerDocument |-> IF Has(payload.data, "payer") THEN payload.data.payer.document ELSE Undefined]

\* mutant: the status is read from the payload instead of payload.data
processPixInWebhook_statusOfPayload(payload) ==
  IF ~Has(payload, "data")
  THEN TypeError
  ELSE [transactionId |-> Get(payload.data, "idTransaction"),
        status |-> Get(payload, "status"),
        amount |-> payload.data.amount,
        paidAt |-> Get(payload.data, "paid_at"),
        payerName |-> IF Has(payload.data, "payer") THEN payload.data.payer.name ELSE Undefined,
        payerDocument |-> IF Has(payload.data, "payer") THEN payload.data.payer.document ELSE Undefined]

\* processPixInWebhook: the projection of payload.data; reading a field of an
\* absent data raises a TypeError
processPixInWebhook(payload) ==
  IF ~Has(payload, "data")
  THEN TypeError
  ELSE [transactionId |-> Get(payload.data, "idTransaction"),
        status |-> Get(payload.data, "status"),
        amount |-> payload.data.amount,
        paidAt |-> Get(payload.data, "paid_at"),
        payerName |-> IF Has(payload.data, "payer") THEN payload.data.payer.name ELSE Undefined,
        payerDocument |-> IF Has(payload.data, "payer") THEN payload.data.payer.document ELSE Undefined]

\* request.headers.get(name): null when the header is absent
HeaderGet(headers, name) == IF name \in DOMAIN headers THEN headers[name] ELSE NoSignature

\* x-trexpay-signature || x-signature || signature || ""
HeaderSignature(headers) ==
  IF SigTruthy(HeaderGet(headers, "x-trexpay-signature")) THEN headers["x-trexpay-signature"]
  ELSE IF SigTruthy(HeaderGet(headers, "x-signature")) THEN headers["x-signature"]
  ELSE IF SigTruthy(HeaderGet(headers, "signature")) THEN headers["signature"]
  ELSE NoSignature

\* signature || body.signature || ""
SignatureToVerify(request) ==
  IF SigTruthy(HeaderSignature(request.headers)) THEN HeaderSignature(request.headers)
  ELSE IF Has(request.body, "signature") /\ SigTruthy(request.body.signature)
       THEN request.body.signature
       ELSE NoSignature

\* the order sent to the attribution service for a paid PIX
PaidOrder(pixData, store) ==
  [orderId |-> pixData.transactionId,
   platform |-> "papelaria-site",
   paymentMethod |-> "pix",
   status |-> "paid",
   createdAt |-> formatUtmfyDate(Now),
   approvedDate |-> formatUtmfyDate(IF Truthy(pixData.paidAt) THEN pixData.paidAt ELSE Now),
   refundedAt |-> Null,
   customer |-> [name |-> Or(pixData.payerName, "Cliente"),
                 email |-> Null,
                 phone |-> Null,
                 document |-> Or(pixData.payerDocument, Null),
                 country |-> "BR"],
   products |-> <<[id |-> "pix-payment", name |-> "Pagamento PIX",
                   quantity |-> 1, priceInCents |-> toCents(pixData.amount)]>>,
   trackingParameters |-> IF hasUtmParams(store, pixData.transactionId)
                          THEN getUtmParams(store, pixData.transactionId)
                          ELSE NullTracking,
   commission |-> [totalPriceInCents |-> toCents(pixData.amount),
                   gatewayFeeInCents |-> 0,
                   userCommissionInCents |-> toCents(pixData.amount),
                   currency |-> "BRL"]]

\* what the handler did: the response, the orders handed to the forwarder and
\* what the forwarder did with them
Handled(response, orders, outcome) ==
  [response |-> response, utmfy |-> orders, utmfyOutcome |-> outcome]

\* try { await sendOrderToUtmfy(order) } catch { log }; then 200
WebhookAfterForward(order, outcome) ==
  Handled(WebhookOk, <<order>>, outcome)

\* if (secret) { if (signatureToVerify) { if (!isValid) return 401 } }
SignatureRejected(request, secret) ==
  /\ Truthy(secret)
  /\ SigTruthy(SignatureToVerify(request))
  /\ ~verifyWebhookSignature(request.body, SignatureToVerify(request), secret)

\* the whole handler on one request, given what the forwarder will do
WebhookPOST(request, secret, store, outcome) ==
  IF SignatureRejected(request, secret)
  THEN Handled(WebhookUnauthorized, <<>>, "none")
  ELSE IF Get(request.body, "event") = "pix.received"
       THEN LET pixData == processPixInWebhook(request.body)
            IN  IF Threw(pixData)
                THEN Handled(WebhookInternalError, <<>>, "none")
                ELSE IF pixData.status = "paid"
                     THEN WebhookAfterForward(PaidOrder(pixData, store), outcome)
                     ELSE Handled(WebhookOk, <<>>, "none")
       ELSE Handled(WebhookOk, <<>>, "none")

(***************************************************************************)
(* Gateway client (src/lib/trexpay.ts)                                     *)
(***************************************************************************)
Digits == {"0", "1", "2", "3", "4", "5", "6", "7", "8", "9"}
IsDigit(c) == c \in Digits
\* text.replace(/\D/g, ""), text a sequence of characters
StripNonDigits(text) == SelectSeq(text, IsDigit)

formatDocument(document) == StripNonDigits(document)

formatPhone(phone) ==
  LET cleaned == StripNonDigits(phone)
  IN  IF Len(cleaned) >= 2 /\ cleaned[1] = "5" /\ cleaned[2] = "5"
      THEN <<"+">> \o cleaned
      ELSE <<"+", "5", "5">> \o cleaned

DepositFailure(code, message) == [success |-> FALSE, error |-> code, message |-> message]

\* mutant: only the token is required
CredentialsMissing_tokenOnly(environment) ==
  ~Truthy(environment.TREXPAY_TOKEN)

\* if (!token || !secret)
CredentialsMissing(environment) ==
  ~Truthy(environment.TREXPAY_TOKEN) \/ ~Truthy(environment.TREXPAY_SECRET)

InvalidCredentials ==
  DepositFailure("INVALID_CREDENTIALS", "Credenciais da TrexPay nao configuradas")

\* the body of the POST to /api/wallet/deposit/payment: the tracking fields
\* that are undefined are removed
DepositRequest(params, environment) ==
  [token |-> environment.TREXPAY_TOKEN,
   secret |-> environment.TREXPAY_SECRET,
   postback |-> params.postbackUrl,
   amount |-> params.amount,
   debtor_name |-> params.customerName,
   email |-> params.customerEmail,
   debtor_document_number |-> formatDocument(params.customerDocument),
   phone |-> formatPhone(params.customerPhone),
   method_pay |-> "pix"]
  @@ [f \in DOMAIN params.trackingParams \cap TrackingFields |-> params.trackingParams[f]]

\* what the gateway's answer can be: the fetch rejects, or a response with a
\* status and a body that is not JSON, the JSON null, or a JSON object
TransportFailure == [kind |-> "failure"]
\* no call was made
NoReply == [kind |-> "none"]
HttpResponse(code, body) == [kind |-> "response", status |-> code, body |-> body]
NotJson == [json |-> "invalid"]
JsonNull == [json |-> "null"]
JsonObject(o) == [json |-> "object", value |-> o]
\* response.ok
ResponseOk(reply) == reply.status >= 200 /\ reply.status <= 299

HttpErrorMessage(code) == IF code = 500 THEN "Erro HTTP 500" ELSE "Erro HTTP"

\* a || b || c || d on string values
Or3(a, b, c) == Or(Or(a, b), c)

\* the success result built from a parsed 2xx body
DepositSuccess(data) ==
  LET responseData == IF Has(data, "data") THEN data.data ELSE data
  IN  [success |-> TRUE,
       idTransaction |-> Or(Or3(Get(responseData, "idTransaction"),
                                Get(responseData, "id_transaction"),
                                Get(responseData, "id")),
                            Get(data, "idTransaction")),
       qrCode |-> Or3(Get(responseData, "qrCode"), Get(responseData, "qr_code"),
                      Get(responseData, "qrcode")),
       qrCodeBase64 |-> Or3(Get(responseData, "qrCodeBase64"),
                            Get(responseData, "qr_code_base64"),
                            Get(responseData, "qrcodeBase64")),
       pixKey |-> Or(Or3(Get(responseData, "pixKey"), Get(responseData, "pix_key"),
                         Get(responseData, "copiaecola")),
                     Or(Get(responseData, "copia_e_cola"), Get(responseData, "emv"))),
       expiresAt |-> Or3(Get(responseData, "expiresAt"), Get(responseData, "expires_at"),
                         Get(responseData, "expiration"))]

NetworkError == DepositFailure("NETWORK_ERROR", "Erro de conexao com a TrexPay")

\* createPixDeposit from the fetch on (lines 212-280): a rejected fetch and
\* any error raised while the body is used end in the catch, as NETWORK_ERROR;
\* a property read on a null body is such an error
DepositResult(reply) ==
  IF reply.kind = "failure" THEN NetworkError
  ELSE IF reply.body.json = "invalid"
       THEN DepositFailure("PARSE_ERROR", "Resposta invalida da TrexPay")
       ELSE IF reply.body.json = "null" THEN NetworkError
            ELSE LET data == reply.body.value
                 IN  IF ~ResponseOk(reply)
                     THEN DepositFailure(
                            Or(Get(data, "error"), "API_ERROR"),
                            Or3(Get(data, "message"), Get(data, "error"),
                                HttpErrorMessage(reply.status)))
                     ELSE DepositSuccess(data)

\* getPixStatus: every failure is a result with status pending
StatusFailure(idTransaction, code) ==
  [success |-> FALSE, idTransaction |-> idTransaction, status |-> "pending", error |-> code]

getPixStatus(idTransaction, reply) ==
  IF reply.kind = "failure" THEN StatusFailure(idTransaction, "NETWORK_ERROR")
  ELSE IF reply.body.json # "object" THEN StatusFailure(idTransaction, "NETWORK_ERROR")
       ELSE LET data == reply.body.value
            IN  IF ~ResponseOk(reply)
                THEN StatusFailure(idTransaction, Or(Get(data, "error"), "API_ERROR"))
                ELSE [success |-> TRUE, idTransaction |-> idTransaction,
                      status |-> Get(data, "status"),
                      amount |-> Get(data, "amount"),
                      paid_at |-> Get(data, "paid_at")]

(***************************************************************************)
(* Status handler (GET /api/pix/status)                                    *)
(***************************************************************************)
StatusBadRequest == Response(400, [error |-> "transactionId e obrigatorio"])

\* mutant: the gateway's status is passed through as it is
MapStatus_passThrough(status) == status

\* the mapping onto the four values the frontend knows
MapStatus(status) ==
  IF status = "paid" THEN "paid"
  ELSE IF status = "expired" THEN "expired"
  ELSE IF status = "cancelled" THEN "cancelled"
  ELSE "pending"

\* the whole handler: the response and the number of calls made to the gateway
StatusGET(transactionId, reply) ==
  IF ~Truthy(transactionId)
  THEN [response |-> StatusBadRequest, gatewayCalls |-> 0]
  ELSE LET result == getPixStatus(transactionId, reply)
       IN  [response |-> Response(200, [success |-> TRUE,
                                        transactionId |-> transactionId,
                                        status |-> MapStatus(result.status),
                                        amount |-> Get(result, "amount"),
                                        paidAt |-> Get(result, "paid_at")]),
            gatewayCalls |-> 1]

(***************************************************************************)
(* Create handler (POST /api/pix/create)                                   *)
(***************************************************************************)
\* a text field, a sequence of characters, is there and not empty
FilledText(o, k) == Has(o, k) /\ Len(o[k]) > 0

\* !customer || !customer.name || !customer.email || !customer.cpf || !customer.phone
CustomerIncomplete(body) ==
  IF ~Has(body, "customer") THEN TRUE
  ELSE \/ ~Truthy(Get(body.customer, "name"))
       \/ ~Truthy(Get(body.customer, "email"))
       \/ ~FilledText(body.customer, "cpf")
       \/ ~FilledText(body.customer, "phone")

\* !items || items.length === 0
NoItems(body) == ~Has(body, "items") \/ Len(body.items) = 0

\* mutant: only a missing total is refused
InvalidTotal_absentOnly(body) == ~Has(body, "total")

\* !total || total <= 0
InvalidTotal(body) == ~Has(body, "total") \/ body.total <= 0

\* the error of the first validation that fails, "" when none does
ValidationError(body) ==
  IF CustomerIncomplete(body) THEN "Dados do cliente incompletos"
  ELSE IF NoItems(body) THEN "Nenhum item no pedido"
  ELSE IF InvalidTotal(body) THEN "Valor total invalido"
  ELSE ""

CreateBadRequest(error) == Response(400, [error |-> error])

\* if (trackingParams)
HasTracking(body) == Has(body, "trackingParams")

\* the snapshot saved for trackingParams: each field, or null
TrackingSnapshot(trackingParams) ==
  [f \in TrackingFields |-> Or(Get(trackingParams, f), Null)]

\* trackingParameters of the waiting_payment order: trackingParams?.field || null
OrderTracking(body) ==
  IF HasTracking(body) THEN TrackingSnapshot(body.trackingParams) ELSE NullTracking

\* the arguments of createPixDeposit
DepositParams(body) ==
  [amount |-> body.total,
   customerName |-> body.customer.name,
   customerEmail |-> body.customer.email,
   customerDocument |-> body.customer.cpf,
   customerPhone |-> body.customer.phone,
   postbackUrl |-> "/api/webhook/trexpay",
   trackingParams |-> IF HasTracking(body) THEN body.trackingParams ELSE EmptyObject]

\* mutant: the failure is answered without its detail
CreateGatewayError_noDetail(result) ==
  Response(500, [error |-> "Erro interno ao processar pagamento"])

\* the 500 for a failure result of the gateway client
CreateGatewayError(result) ==
  Response(500, [error |-> Or(result.message, "Erro ao gerar PIX"),
                 details |-> result.error,
                 debug |-> [errorCode |-> result.error, message |-> result.message]])

CreateInternalError == Response(500, [error |-> "Erro interno ao processar pagamento"])

\* trexPayResult.idTransaction || orderId
CreateTransactionId(result, orderId) == Or(result.idTransaction, orderId)

\* mutant: the snapshot is saved under the order id again
StoreAfterDeposit_orderIdOnly(store, body, result, orderId) ==
  IF HasTracking(body)
  THEN saveUtmParams(store, orderId, TrackingSnapshot(body.trackingParams))
  ELSE store

\* if (trackingParams && trexPayResult.idTransaction) saveUtmParams(idTransaction, ...)
StoreAfterDeposit(store, body, result, orderId) ==
  IF HasTracking(body) /\ Truthy(result.idTransaction)
  THEN saveUtmParams(store, result.idTransaction, TrackingSnapshot(body.trackingParams))
  ELSE store

\* text.replace(/\D/g, "") || null
DigitsOrNull(text) == IF Len(StripNonDigits(text)) > 0 THEN StripNonDigits(text) ELSE Null

OrderProduct(item) ==
  [id |-> Or(Get(item, "id"), "product"),
   name |-> item.name,
   planId |-> Null,
   planName |-> Null,
   quantity |-> item.quantity,
   priceInCents |-> toCents(item.price)]

\* the waiting_payment order sent once the deposit exists
WaitingOrder(body, transactionId) ==
  [orderId |-> transactionId,
   platform |-> "papelaria-site",
   paymentMethod |-> "pix",
   status |-> "waiting_payment",
   createdAt |-> formatUtmfyDate(Now),
   approvedDate |-> Null,
   refundedAt |-> Null,
   customer |-> [name |-> body.customer.name,
                 email |-> body.customer.email,
                 phone |-> DigitsOrNull(body.customer.phone),
                 document |-> DigitsOrNull(body.customer.cpf),
                 country |-> "BR"],
   products |-> [n \in 1..Len(body.items) |-> OrderProduct(body.items[n])],
   trackingParameters |-> OrderTracking(body),
   commission |-> [totalPriceInCents |-> toCents(body.total),
                   gatewayFeeInCents |-> 0,
                   userCommissionInCents |-> toCents(body.total),
                   currency |-> "BRL"]]

\* the 200 with the PIX payload
CreateOk(result, orderId) ==
  Response(200, [success |-> TRUE,
                 orderId |-> orderId,
                 transactionId |-> CreateTransactionId(result, orderId),
                 pix |-> [qrcode |-> Or3(result.pixKey, result.qrCode, ""),
                          qrCodeBase64 |-> Or(result.qrCodeBase64, ""),
                          expiresAt |-> Or(result.expiresAt, "now+30min")]])

\* mutant: an error of the forwarder reaches the outer catch
CreateAfterForward_propagates(result, orderId, outcome) ==
  IF outcome = "raised" THEN CreateInternalError ELSE CreateOk(result, orderId)

\* try { await sendOrderToUtmfy(order) } catch { log }; then the 200
CreateAfterForward(result, orderId, outcome) == CreateOk(result, orderId)

(***************************************************************************)
(* Environment and inputs                                                  *)
(***************************************************************************)
\* the secret the gateway signs its webhooks with
GatewaySecret == "trexpay-secret"
GatewayToken == "trexpay-token"

Environments ==
  [TREXPAY_TOKEN : {Undefined, GatewayToken}, TREXPAY_SECRET : {Undefined, GatewaySecret}]

TransactionIds == {"TX1", "TX2"}

PayerObjects == {[name |-> "Maria", document |-> "12345678900"]}

\* payload.data of a webhook: every field but the amount may be missing
WebhookDataObjects ==
  {("amount" :> 49900) @@ a @@ b @@ c @@ d :
     a \in Opt("idTransaction", {"TX1"}),
     b \in Opt("status", {"paid", "pending"}),
     c \in Opt("paid_at", {"2024-05-01T12:00:00Z"}),
     d \in Opt("payer", PayerObjects)}

WebhookEvents == {"pix.received", "pix.sent", "charge.refunded"}

\* a webhook body before any signature field is added to it
WebhookCoreBodies ==
  {e @@ d : e \in Opt("event", WebhookEvents), d \in Opt("data", WebhookDataObjects)}

\* the body as sent: unsigned, or with a signature field computed over the rest
WebhookBodies ==
  WebhookCoreBodies \cup
  {core @@ ("signature" :> Hmac(core, GatewaySecret)) : core \in WebhookCoreBodies} \cup
  {core @@ ("signature" :> RawSignature("abc", 3)) : core \in WebhookCoreBodies}

\* what a signature header of a request with this body may hold: the gateway's
\* signature, a signature under another key, a string of another length
HeaderSignatures(body) ==
  {Hmac(body, GatewaySecret), Hmac(body, "forged-secret"), RawSignature("sha256=00", 9)}

WebhookHeaders(body) ==
  {a @@ b @@ c :
     a \in Opt("x-trexpay-signature", HeaderSignatures(body)),
     b \in Opt("x-signature", HeaderSignatures(body)),
     c \in Opt("signature", HeaderSignatures(body))}

WebhookRequests ==
  UNION {{[headers |-> h, body |-> body] : h \in WebhookHeaders(body)} : body \in WebhookBodies}

NoRequest == [handled |-> FALSE]

\* how many create requests are followed
MaxCreates == 1
IdleCreate == [pc |-> "idle"]

(***************************************************************************)
(* The webhook receiver alone                                              *)
(***************************************************************************)
\* POST /api/webhook/trexpay with `request`, the forwarder behaving as `outcome`
HandleWebhook(request, outcome) ==
  /\ webhook' = [handled |-> TRUE, request |-> request]
                 @@ WebhookPOST(request, env.TREXPAY_SECRET, utmStore, outcome)
  /\ UNCHANGED <<env, utmStore, statusQuery, creates, deposits>>

\* any webhook request arrives while the handler is free
ReceiveWebhook ==
  /\ ~webhook.handled
  /\ \E request \in WebhookRequests, outcome \in UtmfyOutcomes : HandleWebhook(request, outcome)

\* the response has been sent: the handler is free for the next request
WebhookDone ==
  /\ webhook.handled
  /\ webhook' = NoRequest
  /\ UNCHANGED <<env, utmStore, statusQuery, creates, deposits>>

\* the process after start: nothing stored, no request in progress
Init ==
  /\ env \in Environments
  /\ utmStore = EmptyObject
  /\ webhook = NoRequest
  /\ statusQuery = NoRequest
  /\ creates = [i \in 1..MaxCreates |-> IdleCreate]
  /\ deposits = {}

NextWebhook ==
  \/ ReceiveWebhook
  \/ WebhookDone

SpecWebhook == Init /\ [][NextWebhook]_vars

(***************************************************************************)
(* Create requests and the gateway's answers                               *)
(***************************************************************************)
\* generateOrderId() of the i-th request: time and random suffix, never repeated
OrderIds == <<"PED-1", "PED-2", "PED-3", "PED-4">>
\* the id the gateway gives the deposit of the i-th request
DepositIds == <<"TX1", "TX2", "TX3", "TX4">>

Customer ==
  [name |-> "Maria Silva",
   email |-> "maria@example.com",
   cpf |-> <<"1", "2", "3", ".", "4", "5", "-", "6">>,
   phone |-> <<"(", "1", "1", ")", " ", "9", "8">>]

\* customers the validation refuses: a field missing or empty
IncompleteCustomers ==
  {[f \in DOMAIN Customer \ {missing} |-> Customer[f]] : missing \in DOMAIN Customer}
  \cup {[Customer EXCEPT !.name = ""], [Customer EXCEPT !.cpf = <<>>]}

Items ==
  <<[id |-> "sku-1", name |-> "Caderno", price |-> 19904, quantity |-> 2],
    [name |-> "Caneta", price |-> 10096, quantity |-> 1]>>

Total == 49900

TrackingInputs ==
  {EmptyObject,
   [src |-> "fb", utm_source |-> "google", utm_campaign |-> ""],
   [src |-> "ig", sck |-> "s1", utm_source |-> "meta", utm_campaign |-> "c1",
    utm_medium |-> "cpc", utm_content |-> "v1", utm_term |-> "caderno"]}

\* bodies that pass the validation: with each tracking input or none, and one
\* whose phone already has the country code
ValidCreateBodies ==
  {[customer |-> Customer, items |-> Items, total |-> Total] @@ t :
     t \in Opt("trackingParams", TrackingInputs)}
  \cup {[customer |-> [Customer EXCEPT !.phone = <<"5", "5", "1", "1", "9", "8">>],
         items |-> Items, total |-> Total]}

\* bodies that fail one validation; all carry tracking parameters
InvalidCreateBodies ==
  LET tracked == [trackingParams |-> [src |-> "fb"]]
  IN  {[items |-> Items, total |-> Total] @@ tracked}
      \cup {[customer |-> c, items |-> Items, total |-> Total] @@ tracked :
              c \in IncompleteCustomers}
      \cup {[customer |-> Customer, total |-> Total] @@ tracked,
            [customer |-> Customer, items |-> <<>>, total |-> Total] @@ tracked,
            [customer |-> Customer, items |-> Items] @@ tracked,
            [customer |-> Customer, items |-> Items, total |-> 0] @@ tracked,
            [customer |-> Customer, items |-> Items, total |-> -1000] @@ tracked}

CreateBodies == ValidCreateBodies \cup InvalidCreateBodies

\* the JSON objects the deposit endpoint may answer with, for a deposit `id`:
\* the spellings the client accepts, an answer without id, and error bodies
DepositObjects(id) ==
  {[idTransaction |-> id, qrCode |-> "QR", qrCodeBase64 |-> "B64", expiresAt |-> "2024-05-01T12:30:00Z"],
   [data |-> [id_transaction |-> id, qr_code |-> "QR", pix_key |-> "KEY"]],
   [id |-> id, copiaecola |-> "EMV"],
   [idTransaction |-> id, data |-> [qrcode |-> "QR"]],
   [qrcode |-> "QR"],
   [error |-> "INVALID_AMOUNT", message |-> "Valor invalido"]}

DepositErrorObjects ==
  {[error |-> "INVALID_AMOUNT", message |-> "Valor invalido"],
   [message |-> "Falha"],
   EmptyObject}

DepositReplies(id) ==
  {TransportFailure}
  \cup {HttpResponse(200, body) :
          body \in {NotJson, JsonNull} \cup {JsonObject(o) : o \in DepositObjects(id)}}
  \cup {HttpResponse(500, body) :
          body \in {NotJson, JsonNull} \cup {JsonObject(o) : o \in DepositErrorObjects}
                   \cup {JsonObject([idTransaction |-> id, qrCode |-> "QR"])}}

\* the webhooks the gateway sends for a deposit, pending or paid, signed in a
\* header with the shared secret
GatewayWebhookBodies(id) ==
  {[event |-> "pix.received",
    data |-> [idTransaction |-> id, status |-> "pending", amount |-> Total]],
   [event |-> "pix.received",
    data |-> [idTransaction |-> id, status |-> "paid", amount |-> Total,
              paid_at |-> "2024-05-01T12:00:00Z",
              payer |-> [name |-> "Maria", document |-> "12345678900"]]]}

GatewayWebhooks(id) ==
  {[headers |-> [signature |-> Hmac(body, GatewaySecret)], body |-> body] :
     body \in GatewayWebhookBodies(id)}

(***************************************************************************)
(* The create handler, the gateway and its webhooks                        *)
(***************************************************************************)
SetCreate(i, c) == creates' = [creates EXCEPT ![i] = c]

\* POST /api/pix/create, up to the fetch of createPixDeposit
CreateReceive(i, body) ==
  /\ creates[i].pc = "idle"
  /\ IF i = 1 THEN TRUE ELSE creates[i - 1].pc # "idle"
  /\ IF ValidationError(body) # ""
     THEN /\ SetCreate(i, [pc |-> "done", body |-> body, effects |-> <<"response">>,
                           response |-> CreateBadRequest(ValidationError(body))])
          /\ UNCHANGED utmStore
     ELSE LET orderId == OrderIds[i]
              saved == IF HasTracking(body) THEN <<"saveUtmParams">> ELSE <<>>
              started == [body |-> body, orderId |-> orderId]
          IN  /\ utmStore' = IF HasTracking(body)
                             THEN saveUtmParams(utmStore, orderId,
                                                TrackingSnapshot(body.trackingParams))
                             ELSE utmStore
              /\ IF CredentialsMissing(env)
                 THEN SetCreate(i, started @@
                        [pc |-> "done",
                         effects |-> saved \o <<"createPixDeposit", "createPixDeposit.return",
                                                "response">>,
                         result |-> InvalidCredentials,
                         response |-> CreateGatewayError(InvalidCredentials)])
                 ELSE SetCreate(i, started @@
                        [pc |-> "fetching",
                         effects |-> saved \o <<"createPixDeposit", "fetch">>,
                         fetch |-> DepositRequest(DepositParams(body), env)])
  /\ UNCHANGED <<env, webhook, statusQuery, deposits>>

\* the gateway, or the network, answers the fetch; a 2xx answer means the
\* deposit exists from now on
GatewayAnswer(i, reply) ==
  /\ creates[i].pc = "fetching"
  /\ SetCreate(i, [pc |-> "answered", reply |-> reply] @@ creates[i])
  /\ deposits' = IF reply.kind = "response" /\ ResponseOk(reply)
                 THEN deposits \cup {DepositIds[i]}
                 ELSE deposits
  /\ UNCHANGED <<env, utmStore, webhook, statusQuery>>

\* the handler calling the forwarder before it saves under the gateway's id
CreateResume_forwardsFirst(i) ==
  /\ creates[i].pc = "answered"
  /\ LET c == creates[i]
         result == DepositResult(c.reply)
         returned == c.effects \o <<"createPixDeposit.return">>
     IN  IF ~result.success
         THEN /\ SetCreate(i, [pc |-> "done", result |-> result,
                               effects |-> returned \o <<"response">>,
                               response |-> CreateGatewayError(result)] @@ c)
              /\ UNCHANGED utmStore
         ELSE /\ utmStore' = StoreAfterDeposit(utmStore, c.body, result, c.orderId)
              /\ SetCreate(i, [pc |-> "forwarding", result |-> result,
                               effects |-> returned
                                 \o <<"sendOrderToUtmfy">>
                                 \o (IF HasTracking(c.body) /\ Truthy(result.idTransaction)
                                     THEN <<"saveUtmParams">> ELSE <<>>),
                               utmfy |-> <<WaitingOrder(c.body,
                                             CreateTransactionId(result, c.orderId))>>] @@ c)
  /\ UNCHANGED <<env, webhook, statusQuery, deposits>>

\* createPixDeposit returns and the handler goes on, up to the call of the forwarder
CreateResume(i) ==
  /\ creates[i].pc = "answered"
  /\ LET c == creates[i]
         result == DepositResult(c.reply)
         returned == c.effects \o <<"createPixDeposit.return">>
     IN  IF ~result.success
         THEN /\ SetCreate(i, [pc |-> "done", result |-> result,
                               effects |-> returned \o <<"response">>,
                               response |-> CreateGatewayError(result)] @@ c)
              /\ UNCHANGED utmStore
         ELSE /\ utmStore' = StoreAfterDeposit(utmStore, c.body, result, c.orderId)
              /\ SetCreate(i, [pc |-> "forwarding", result |-> result,
                               effects |-> returned
                                 \o (IF HasTracking(c.body) /\ Truthy(result.idTransaction)
                                     THEN <<"saveUtmParams">> ELSE <<>>)
                                 \o <<"sendOrderToUtmfy">>,
                               utmfy |-> <<WaitingOrder(c.body,
                                             CreateTransactionId(result, c.orderId))>>] @@ c)
  /\ UNCHANGED <<env, webhook, statusQuery, deposits>>

\* the forwarder is done, one way or another, and the handler responds
CreateFinish(i, outcome) ==
  /\ creates[i].pc = "forwarding"
  /\ LET c == creates[i]
     IN  SetCreate(i, [pc |-> "done", utmfyOutcome |-> outcome,
                       effects |-> c.effects \o <<"response">>,
                       response |-> CreateAfterForward(c.result, c.orderId, outcome)] @@ c)
  /\ UNCHANGED <<env, utmStore, webhook, statusQuery, deposits>>

\* the gateway sends a webhook for a deposit it has created
DeliverWebhook ==
  /\ ~webhook.handled
  /\ \E id \in deposits :
       \E request \in GatewayWebhooks(id), outcome \in UtmfyOutcomes :
         HandleWebhook(request, outcome)

Next ==
  \/ \E i \in 1..MaxCreates, body \in CreateBodies : CreateReceive(i, body)
  \/ \E i \in 1..MaxCreates : \E reply \in DepositReplies(DepositIds[i]) : GatewayAnswer(i, reply)
  \/ \E i \in 1..MaxCreates : CreateResume(i)
  \/ \E i \in 1..MaxCreates, outcome \in UtmfyOutcomes : CreateFinish(i, outcome)
  \/ DeliverWebhook
  \/ WebhookDone

Spec == Init /\ [][Next]_vars

(***************************************************************************)
(* Claims about the webhook receiver                                       *)
(***************************************************************************)
\* the signature the handler looks at is there and is not the HMAC of the body
\* under `secret`
SignatureMismatch(request, secret) ==
  /\ SigTruthy(SignatureToVerify(request))
  /\ SignatureToVerify(request) # Hmac(request.body, secret)

PaidEvent(body) ==
  /\ Get(body, "event") = "pix.received"
  /\ Has(body, "data")
  /\ Get(body.data, "status") = "paid"

\* C1 as stated: every answered webhook request whose signature is present and
\* is not the HMAC of its body under the gateway's secret got 401, and no order
\* was handed to the attribution forwarder.
C1_Original ==
  (webhook.handled /\ SignatureMismatch(webhook.request, GatewaySecret))
    => (webhook.response = WebhookUnauthorized /\ webhook.utmfy = <<>>)

\* C1 amended: when TREXPAY_SECRET is configured, every answered webhook request
\* whose signature is present and is not the HMAC of its body under that secret
\* got 401 and no order was handed to the attribution forwarder, whatever the
\* event and the data of the body.
C1_InvalidSignatureRejected ==
  (/\ webhook.handled
   /\ Truthy(env.TREXPAY_SECRET)
   /\ SignatureMismatch(webhook.request, env.TREXPAY_SECRET))
    => (webhook.response = WebhookUnauthorized /\ webhook.utmfy = <<>>)

\* a paid pix.received with a wrong signature in the first header was answered 401
C1_Witness ==
  /\ webhook.handled
  /\ Truthy(env.TREXPAY_SECRET)
  /\ PaidEvent(webhook.request.body)
  /\ Has(webhook.request.headers, "x-trexpay-signature")
  /\ SignatureMismatch(webhook.request, env.TREXPAY_SECRET)
  /\ webhook.response.status = 401

\* C2: every answered webhook request that carries the gateway's signature of
\* its body, with event pix.received and data status paid, handed exactly one
\* order to the attribution forwarder, with status paid and the payload's
\* idTransaction as orderId, and was answered 200 {success: true}.
C2_PaidForwardedOnce ==
  (/\ webhook.handled
   /\ SignatureToVerify(webhook.request) = Hmac(webhook.request.body, GatewaySecret)
   /\ PaidEvent(webhook.request.body))
    => (/\ Len(webhook.utmfy) = 1
        /\ webhook.utmfy[1].status = "paid"
        /\ webhook.utmfy[1].orderId = Get(webhook.request.body.data, "idTransaction")
        /\ webhook.response = WebhookOk)

\* a signed paid pix.received for TX1 was verified under the configured secret
\* and forwarded
C2_Witness ==
  /\ webhook.handled
  /\ env.TREXPAY_SECRET = GatewaySecret
  /\ SignatureToVerify(webhook.request) = Hmac(webhook.request.body, GatewaySecret)
  /\ PaidEvent(webhook.request.body)
  /\ Len(webhook.utmfy) = 1
  /\ webhook.utmfy[1].orderId = "TX1"
  /\ webhook.response.status = 200

\* C3 as stated: every webhook request not answered 401 was answered
\* 200 {success: true}, and an order was handed to the forwarder only for
\* pix.received with status paid.
C3_Original ==
  (webhook.handled /\ webhook.response.status # 401)
    => (/\ webhook.response = WebhookOk
        /\ (webhook.utmfy # <<>> => PaidEvent(webhook.request.body)))

\* C3 amended: every webhook request not answered 401 whose event is pix.sent,
\* unrecognized or absent, or is pix.received with a data object (of any status
\* and fields), was answered 200 {success: true}; a pix.received without a data
\* object was answered 500; an order was handed to the forwarder only for
\* pix.received with status paid.
C3_AcknowledgedUnlessNoData ==
  (webhook.handled /\ webhook.response.status # 401)
    => LET body == webhook.request.body
           noData == Get(body, "event") = "pix.received" /\ ~Has(body, "data")
       IN  /\ ~noData => webhook.response = WebhookOk
           /\ noData => webhook.response = WebhookInternalError
           /\ webhook.utmfy # <<>> => PaidEvent(body)

\* an unrecognized event and a pending pix.received are both acknowledged; here
\* the latter, with no order forwarded
C3_Witness ==
  /\ webhook.handled
  /\ Get(webhook.request.body, "event") = "pix.received"
  /\ Has(webhook.request.body, "data")
  /\ Get(webhook.request.body.data, "status") = "pending"
  /\ webhook.response = WebhookOk
  /\ webhook.utmfy = <<>>

(***************************************************************************)
(* The status handler alone                                                *)
(***************************************************************************)
\* the bodies the gateway's /api/status may answer with
StatusObjects ==
  {a @@ b @@ c @@ d :
     a \in Opt("status", {"pending", "paid", "expired", "cancelled", "processing", "PAID"}),
     b \in Opt("amount", {49900}),
     c \in Opt("paid_at", {"2024-05-01T12:00:00Z"}),
     d \in Opt("error", {"NOT_FOUND"})}

StatusReplies ==
  {TransportFailure} \cup
  {HttpResponse(code, body) :
     code \in {200, 404, 500},
     body \in {NotJson, JsonNull} \cup {JsonObject(o) : o \in StatusObjects}}

\* searchParams.get("transactionId"): null when the parameter is absent
StatusParameters == {Null, ""} \cup TransactionIds

\* GET /api/pix/status arrives while the handler is free; `reply` is what the
\* gateway answers if it is asked
ReceiveStatus ==
  /\ ~statusQuery.handled
  /\ \E transactionId \in StatusParameters, reply \in StatusReplies :
       statusQuery' = [handled |-> TRUE, transactionId |-> transactionId,
                       reply |-> IF Truthy(transactionId) THEN reply ELSE NoReply]
                      @@ StatusGET(transactionId, reply)
  /\ UNCHANGED <<env, utmStore, webhook, creates, deposits>>

StatusDone ==
  /\ statusQuery.handled
  /\ statusQuery' = NoRequest
  /\ UNCHANGED <<env, utmStore, webhook, creates, deposits>>

NextStatus ==
  \/ ReceiveStatus
  \/ StatusDone

SpecStatus == Init /\ [][NextStatus]_vars

\* the status of a reply the gateway's answer is passed through from: a 2xx
\* response with a JSON object
GatewayStatus(reply) ==
  IF reply.kind = "response" /\ ResponseOk(reply) /\ reply.body.json = "object"
  THEN Get(reply.body.value, "status")
  ELSE Undefined

\* C6: every answered status request with a transactionId got 200 with
\* success true and the gateway's status when the gateway answered 2xx with
\* paid, expired or cancelled, and pending in every other case (another or no
\* status, a non-2xx answer, a body that cannot be read, a transport failure);
\* a request without transactionId got 400 and the gateway was not called.
C6_StatusMapped ==
  statusQuery.handled =>
    IF Truthy(statusQuery.transactionId)
    THEN /\ statusQuery.response.status = 200
         /\ statusQuery.response.body.success = TRUE
         /\ statusQuery.response.body.status \in {"pending", "paid", "expired", "cancelled"}
         /\ statusQuery.response.body.status =
              (IF GatewayStatus(statusQuery.reply) \in {"paid", "expired", "cancelled"}
               THEN GatewayStatus(statusQuery.reply)
               ELSE "pending")
    ELSE /\ statusQuery.response.status = 400
         /\ statusQuery.gatewayCalls = 0

\* a non-2xx answer whose body says paid was reported as pending
C6_Witness ==
  /\ statusQuery.handled
  /\ statusQuery.transactionId = "TX1"
  /\ statusQuery.reply.kind = "response"
  /\ statusQuery.reply.status = 500
  /\ statusQuery.reply.body.json = "object"
  /\ Get(statusQuery.reply.body.value, "status") = "paid"
  /\ statusQuery.response.body.status = "pending"

(***************************************************************************)
(* Claims about the create handler and the gateway client                  *)
(***************************************************************************)
CreateIds == 1..MaxCreates
\* createPixDeposit has returned to the i-th request
DepositReturned(i) == Has(creates[i], "result")
CreateDone(i) == creates[i].pc = "done"

\* C4: the forwarder's outcome does not change the HTTP outcome: every create
\* request whose deposit succeeded was answered 200 with the PIX payload, and
\* every webhook that handed an order to the forwarder was answered
\* 200 {success: true}, whether the forwarder succeeded, failed or raised.
C4_ForwarderNeverFatal ==
  /\ \A i \in CreateIds :
       (CreateDone(i) /\ DepositReturned(i) /\ creates[i].result.success)
         => /\ creates[i].utmfyOutcome \in UtmfyOutcomes
            /\ creates[i].response.status = 200
            /\ creates[i].response.body.success = TRUE
            /\ creates[i].response.body.pix.qrcode
                 = Or3(creates[i].result.pixKey, creates[i].result.qrCode, "")
  /\ (webhook.handled /\ webhook.utmfy # <<>>)
       => /\ webhook.utmfyOutcome \in UtmfyOutcomes
          /\ webhook.response = WebhookOk

\* the forwarder raised in a create request and in a paid webhook, and both
\* were answered 200
C4_Witness ==
  /\ \E i \in CreateIds :
       /\ CreateDone(i)
       /\ DepositReturned(i)
       /\ creates[i].result.success
       /\ creates[i].utmfyOutcome = "raised"
       /\ creates[i].response.status = 200
  /\ webhook.handled
  /\ Len(webhook.utmfy) = 1
  /\ webhook.utmfyOutcome = "raised"
  /\ webhook.response.status = 200

\* C5: while TREXPAY_TOKEN or TREXPAY_SECRET is not configured, every call of
\* createPixDeposit has returned the failure INVALID_CREDENTIALS and no request
\* was sent to the gateway.
C5_MissingCredentials ==
  (env.TREXPAY_TOKEN = Undefined \/ env.TREXPAY_SECRET = Undefined)
    => \A i \in CreateIds :
         /\ creates[i].pc \in {"idle", "done"}
         /\ ~Has(creates[i], "fetch")
         /\ Has(creates[i], "effects") =>
              \A n \in 1..Len(creates[i].effects) : creates[i].effects[n] # "fetch"
         /\ DepositReturned(i) =>
              /\ creates[i].result.success = FALSE
              /\ creates[i].result.error = "INVALID_CREDENTIALS"
         /\ deposits = {}

\* the token is configured, the secret is not, and a valid request was refused
C5_Witness ==
  /\ env.TREXPAY_TOKEN = GatewayToken
  /\ env.TREXPAY_SECRET = Undefined
  /\ \E i \in CreateIds :
       /\ DepositReturned(i)
       /\ creates[i].result.error = "INVALID_CREDENTIALS"
       /\ creates[i].response.status = 500

\* a create body lacks a customer field, a line item or a positive total
LacksRequired(body) ==
  \/ ~Has(body, "customer")
  \/ \E f \in {"name", "email", "cpf", "phone"} :
       IF Has(body, "customer")
       THEN ~Has(body.customer, f) \/ body.customer[f] = (IF f \in {"cpf", "phone"} THEN <<>> ELSE "")
       ELSE TRUE
  \/ IF Has(body, "items") THEN body.items = <<>> ELSE TRUE
  \/ IF Has(body, "total") THEN body.total <= 0 ELSE TRUE

\* C7: every create request lacking a customer field, a line item or a
\* positive total was answered 400 at once and did nothing else: nothing saved
\* in the correlation store, no call of the gateway client, no order forwarded.
C7_InvalidRequestNoEffect ==
  \A i \in CreateIds :
    (Has(creates[i], "body") /\ LacksRequired(creates[i].body))
      => /\ CreateDone(i)
         /\ creates[i].response.status = 400
         /\ creates[i].effects = <<"response">>
         /\ ~DepositReturned(i)
         /\ ~Has(creates[i], "fetch")
         /\ ~Has(creates[i], "utmfy")
         /\ ~hasUtmParams(utmStore, OrderIds[i])
         /\ ~hasUtmParams(utmStore, DepositIds[i])
         /\ DepositIds[i] \notin deposits

\* a request with tracking parameters and a total of zero was refused and the
\* store is still empty
C7_Witness ==
  \E i \in CreateIds :
    /\ CreateDone(i)
    /\ Has(creates[i].body, "total")
    /\ creates[i].body.total = 0
    /\ HasTracking(creates[i].body)
    /\ creates[i].response.status = 400
    /\ utmStore = EmptyObject

\* the snapshot of tracking parameters: each of the seven fields, null when
\* absent or empty
ExpectedSnapshot(trackingParams) ==
  [f \in TrackingFields |->
     IF f \in DOMAIN trackingParams /\ trackingParams[f] # "" THEN trackingParams[f] ELSE Null]

StoredAs(key, snapshot) == hasUtmParams(utmStore, key) /\ getUtmParams(utmStore, key) = snapshot

\* the create request answered 200 that carried tracking parameters
TrackedCreateOk(i) ==
  /\ CreateDone(i)
  /\ creates[i].response.status = 200
  /\ HasTracking(creates[i].body)

\* C8 as stated: after a create request with tracking parameters whose deposit
\* succeeded, the store maps the order id and the gateway's transaction id of
\* the deposit to the snapshot, and so the transactionId of the response.
C8_Original ==
  \A i \in CreateIds :
    TrackedCreateOk(i)
      => LET snapshot == ExpectedSnapshot(creates[i].body.trackingParams)
         IN  /\ StoredAs(OrderIds[i], snapshot)
             /\ StoredAs(DepositIds[i], snapshot)
             /\ StoredAs(creates[i].response.body.transactionId, snapshot)

\* C8 amended: after a create request with tracking parameters whose deposit
\* succeeded, the store maps the order id to the snapshot (absent and empty
\* fields as null) and, when the gateway's answer carried a transaction id,
\* that id as well; the transactionId of the 200 response is that id, or the
\* order id when the answer carried none, and a get by it yields the snapshot.
C8_StoredUnderKnownIds ==
  \A i \in CreateIds :
    TrackedCreateOk(i)
      => LET snapshot == ExpectedSnapshot(creates[i].body.trackingParams)
             known == creates[i].result.idTransaction
         IN  /\ StoredAs(OrderIds[i], snapshot)
             /\ known \notin {Undefined, ""} =>
                  /\ StoredAs(known, snapshot)
                  /\ creates[i].response.body.transactionId = known
             /\ known \in {Undefined, ""} =>
                  creates[i].response.body.transactionId = OrderIds[i]
             /\ StoredAs(creates[i].response.body.transactionId, snapshot)

\* the gateway named the deposit under data.id_transaction, and the snapshot,
\* with its empty utm_campaign as null, is stored under that id and the order id
C8_Witness ==
  \E i \in CreateIds :
    /\ TrackedCreateOk(i)
    /\ Has(creates[i].reply.body.value, "data")
    /\ creates[i].response.body.transactionId = DepositIds[i]
    /\ hasUtmParams(utmStore, DepositIds[i])
    /\ utmStore[DepositIds[i]].src = "fb"
    /\ utmStore[DepositIds[i]].utm_campaign = Null
    /\ utmStore[OrderIds[i]] = utmStore[DepositIds[i]]

\* C9 as stated: with the credentials configured, createPixDeposit returns a
\* result for every outcome of its POST: PARSE_ERROR for a body that is not
\* JSON; for a non-2xx response with a JSON body a failure with the body's
\* error code, or API_ERROR when it has none; NETWORK_ERROR for a transport
\* failure; success for a 2xx response with a JSON body.
C9_Original ==
  \A i \in CreateIds :
    DepositReturned(i) /\ Has(creates[i], "reply")
      => LET reply == creates[i].reply
             result == creates[i].result
             code == IF reply.body.json = "object" THEN Get(reply.body.value, "error")
                     ELSE Undefined
         IN  IF reply.kind = "failure"
             THEN ~result.success /\ result.error = "NETWORK_ERROR"
             ELSE IF reply.body.json = "invalid"
                  THEN ~result.success /\ result.error = "PARSE_ERROR"
                  ELSE IF reply.status \notin 200..299
                       THEN /\ ~result.success
                            /\ result.error = (IF code \in {Undefined, ""} THEN "API_ERROR" ELSE code)
                       ELSE result.success

IsSave(effect) == effect = "saveUtmParams"

\* C10: every create request whose call of the gateway client returned a
\* failure was answered 500 with the failure's message and code, handed no
\* order to the forwarder and stored nothing under the deposit's transaction
\* id: its one write to the store, if any, is the one under the order id.
C10_GatewayFailure ==
  \A i \in CreateIds :
    (DepositReturned(i) /\ ~creates[i].result.success)
      => /\ CreateDone(i)
         /\ creates[i].response.status = 500
         /\ Has(creates[i].response.body, "details")
         /\ creates[i].response.body.details = creates[i].result.error
         /\ creates[i].response.body.error = creates[i].result.message
         /\ ~Has(creates[i], "utmfy")
         /\ \A n \in 1..Len(creates[i].effects) : creates[i].effects[n] # "sendOrderToUtmfy"
         /\ ~hasUtmParams(utmStore, DepositIds[i])
         /\ Len(SelectSeq(creates[i].effects, IsSave))
              = (IF HasTracking(creates[i].body) THEN 1 ELSE 0)

\* the gateway created the deposit but its answer could not be parsed: the
\* tracked request was answered 500 PARSE_ERROR and only the order id is stored
C10_Witness ==
  \E i \in CreateIds :
    /\ CreateDone(i)
    /\ DepositReturned(i)
    /\ creates[i].result.error = "PARSE_ERROR"
    /\ DepositIds[i] \in deposits
    /\ HasTracking(creates[i].body)
    /\ creates[i].response.status = 500
    /\ DOMAIN utmStore = {OrderIds[i]}

(***************************************************************************)
(* Claims about the order of a create request's effects                    *)
(***************************************************************************)
\* the positions of `effect` in the effects of create request i
Positions(i, effect) ==
  {n \in 1..Len(creates[i].effects) : creates[i].effects[n] = effect}

Started(i) == Has(creates[i], "effects")

\* every occurrence of `later` comes after some occurrence of `earlier`
ComesAfter(i, later, earlier) ==
  \A n \in Positions(i, later) : \E m \in Positions(i, earlier) : m < n

\* no occurrence of `later` comes before an occurrence of `earlier`
NeverBefore(i, later, earlier) ==
  \A n \in Positions(i, later) : \A m \in Positions(i, earlier) : m < n

\* the response, once produced, is the last effect
ResponseLast(i) ==
  Positions(i, "response") \subseteq {Len(creates[i].effects)}

\* C11 as stated: in every create request the call of the gateway client
\* returns first, then the correlation store is written, then the order is
\* handed to the forwarder, then the response is produced; no write to the
\* store comes before the return of the gateway call.
C11_Original ==
  \A i \in CreateIds :
    Started(i)
      => /\ ComesAfter(i, "saveUtmParams", "createPixDeposit.return")
         /\ ComesAfter(i, "sendOrderToUtmfy", "createPixDeposit.return")
         /\ NeverBefore(i, "sendOrderToUtmfy", "saveUtmParams")
         /\ ResponseLast(i)
         /\ (~DepositReturned(i) /\ ~CreateDone(i)) => ~hasUtmParams(utmStore, OrderIds[i])

\* the writes to the store made before the gateway client was called
SavesBeforeCall(i) ==
  {n \in Positions(i, "saveUtmParams") :
     \A m \in Positions(i, "createPixDeposit") : n < m}

\* C11 amended: in every create request that passes validation, the tracking
\* snapshot, if the request carries one, is written to the store under the
\* order id before the gateway client is called; then the gateway call
\* returns; then, on success, the snapshot is written under the gateway's
\* transaction id (nothing is stored under that id before the call has
\* returned), then the order is handed to the forwarder, then the response is
\* produced, as the last effect.  A request that fails validation only
\* produces its response.
C11_EffectsInOrder ==
  \A i \in CreateIds :
    Started(i)
      => LET c == creates[i]
             called == Positions(i, "createPixDeposit") # {}
         IN  /\ ResponseLast(i)
             /\ ComesAfter(i, "createPixDeposit.return", "createPixDeposit")
             /\ ComesAfter(i, "sendOrderToUtmfy", "createPixDeposit.return")
             /\ NeverBefore(i, "sendOrderToUtmfy", "saveUtmParams")
             /\ \A n \in Positions(i, "saveUtmParams") :
                  \/ n \in SavesBeforeCall(i)
                  \/ \E m \in Positions(i, "createPixDeposit.return") : m < n
             /\ called =>
                  /\ Cardinality(SavesBeforeCall(i)) = (IF HasTracking(c.body) THEN 1 ELSE 0)
                  /\ Cardinality(Positions(i, "saveUtmParams") \ SavesBeforeCall(i)) <= 1
                  /\ HasTracking(c.body) =>
                       StoredAs(OrderIds[i], ExpectedSnapshot(c.body.trackingParams))
             /\ ~called => c.effects = <<"response">>
             /\ ~DepositReturned(i) => ~hasUtmParams(utmStore, DepositIds[i])
             /\ Positions(i, "response") # {} =>
                  (called => Positions(i, "createPixDeposit.return") # {})

\* a tracked request went all the way: saved under the order id, gateway
\* called and returned, saved under the gateway's id, forwarded, answered
C11_Witness ==
  \E i \in CreateIds :
    /\ CreateDone(i)
    /\ creates[i].effects = <<"saveUtmParams", "createPixDeposit", "fetch",
                              "createPixDeposit.return", "saveUtmParams",
                              "sendOrderToUtmfy", "response">>
    /\ StoredAs(DepositIds[i], ExpectedSnapshot(creates[i].body.trackingParams))
    /\ creates[i].response.status = 200

(***************************************************************************)
(* Claims about a create request racing with its webhooks                  *)
(***************************************************************************)
\* the paid orders the webhook handler handed to the forwarder for deposit `id`
PaidOrdersFor(id) ==
  IF webhook.handled
  THEN {n \in 1..Len(webhook.utmfy) :
          webhook.utmfy[n].status = "paid" /\ webhook.utmfy[n].orderId = id}
  ELSE {}

\* C12: under every interleaving of a create request with the webhooks of the
\* deposit it creates, every paid order forwarded for that deposit carries the
\* tracking snapshot captured by the create request, never the all-null
\* default in its place.
C12_Original ==
  \A i \in CreateIds :
    (Started(i) /\ HasTracking(creates[i].body))
      => \A n \in PaidOrdersFor(DepositIds[i]) :
           webhook.utmfy[n].trackingParameters
             = ExpectedSnapshot(creates[i].body.trackingParams)

====
